---- MODULE Spec2Model ----
(***************************************************************************)
(* Tabu-search state recovery attack on the generalized RC4+ PRGA          *)
(* (src/tabu_search/tabu_logic.py): the keystream engine, the TabuCracker  *)
(* attack state, one iteration (step) under the lock, and the background   *)
(* runner (run / _run_loop / stop / get_current_state) with its threads.   *)
(*                                                                         *)
(* Arrays (numpy arrays in the source) are zero-indexed functions.  The    *)
(* arrays a thread can keep a reference to live in `heap`, addressed by a  *)
(* reference; `.copy()` allocates a new reference, an assignment of an     *)
(* array shares the reference.  Reference 0 is None.                       *)
(***************************************************************************)
EXTENDS Integers, Sequences, FiniteSets, TLC

\* ------------------------------------------------------------------ bounds

\* S-box size of the modelled Cracker (self.N).  The source admits 64, 128
\* and 256; the model instantiates the same code at the power of two 4, so
\* that the move universe (6 swaps, 3 sampled per step, tabu horizon 3) can
\* be enumerated.  The keystream engine below takes N as a parameter.
N == 4

\* Length of the target keystream (self.keystream_length).
KeystreamLength == 2

\* Largest max_iterations passed to run().
MaxIterations == 2

\* Number of run() calls the controlling thread makes.
MaxRuns == 2

\* Number of stop() calls the controlling thread makes.
MaxStops == 1

\* Number of get_current_state() calls the controlling thread makes.
MaxQueries == 1

\* max_iterations of the long run in which the search is followed.
SearchIterations == 5

\* Largest length a keystream engine is asked for.
MaxLength == 3

\* How many times rc4_plus_prga is called on one array.
MaxCalls == 2

\* ------------------------------------------------------- integer helpers

Max(a, b) == IF a >= b THEN a ELSE b

Min(a, b) == IF a <= b THEN a ELSE b

RECURSIVE Pow2(_)
Pow2(k) == IF k = 0 THEN 1 ELSE 2 * Pow2(k - 1)

\* int(np.ceil(np.log2(n))): the least b with 2^b >= n.
RECURSIVE CeilLog2From(_, _)
CeilLog2From(n, b) == IF Pow2(b) >= n THEN b ELSE CeilLog2From(n, b + 1)

CeilLog2(n) == CeilLog2From(n, 0)

ShiftRight(x, k) == x \div Pow2(k)

ShiftLeft(x, k) == x * Pow2(k)

\* Python's ^ on non-negative integers.
RECURSIVE Xor(_, _)
Xor(a, b) ==
    IF a = 0 THEN b
    ELSE IF b = 0 THEN a
    ELSE ((a + b) % 2) + 2 * Xor(a \div 2, b \div 2)

\* Python's & 0xFF on a non-negative integer.
And255(x) == x % 256

\* ------------------------------------------------------ keystream engine

\* Only the first half of the exchange: S_work[i] = S_work[j].
OverwriteAt(S, i, j) == [S EXCEPT ![i] = S[j]]

\* S_work[i], S_work[j] = S_work[j], S_work[i]
SwapAt(S, i, j) == [S EXCEPT ![i] = S[j], ![j] = S[i]]

\* int(a * scale_factor + b * scale_factor) with scale_factor = 256.0 / n.
ScaleSum(a, b, n) == ((a * 256) + (b * 256)) \div n

\* The entry itself, without the factor 256 / N.
Unscaled(a, n) == a

\* int(a * scale_factor)
Scale(a, n) == (a * 256) \div n

\* An index left unreduced: the expression of lines 48-49 without its % N.
KeepIndex(x, n) == x

\* The % N that closes the expressions of idx1 and idx2 (lines 48-49).
ReduceIndex(x, n) == x % n

\* Lines 41-49 of the body of the for loop of rc4_plus_prga: the new i and
\* j, the working array after the swap, and the indices t, idx1, idx2.
PrgaIndices(w, n) ==
    LET n_bits == CeilLog2(n)
        i == (w.i + 1) % n
        j == (w.j + w.S[i]) % n
        S == SwapAt(w.S, i, j)
        t == (S[i] + S[j]) % n
        shift_right == Max(1, n_bits \div 3)
        shift_left == Max(1, n_bits - shift_right)
        idx1 == ReduceIndex(Xor(ShiftRight(i, shift_right), ShiftLeft(j, shift_left)), n)
        idx2 == ReduceIndex(Xor(ShiftLeft(i, shift_left), ShiftRight(j, shift_right)), n)
    IN  [S |-> S, i |-> i, j |-> j, t |-> t, idx1 |-> idx1, idx2 |-> idx2]

\* Lines 52-57: the test that guards the lookups below.
IndexOutOfBounds(x, n) == x.idx1 >= n \/ x.idx2 >= n

\* Lines 53-56: raise IndexError; the pass computes no t', no t'' and no
\* byte.
IndexError == [t_prime |-> -1, t_double |-> -1, output |-> -1]

\* Lines 58-75 of the body, on the result x of lines 41-49: t', t'' and the
\* emitted byte.
PrgaOutput(x, n) ==
    LET S == x.S
        t_prime_val == (S[x.idx1] + S[x.idx2]) % n
        xor_constant == (170 * n) \div 256
        t_prime == Xor(t_prime_val, xor_constant) % n
        t_double == (x.j + S[x.j]) % n
        output ==
            IF n < 256
            THEN And255(Xor(And255(ScaleSum(S[x.t], S[t_prime], n)),
                           Scale(S[t_double], n)))
            ELSE And255(Xor(And255(S[x.t] + S[t_prime]), S[t_double]))
    IN  [t_prime |-> t_prime, t_double |-> t_double, output |-> output]

\* One pass of the body of the for loop of rc4_plus_prga: from the working
\* state [S, i, j] to the new working state and the emitted byte, or to
\* the IndexError of lines 53-56.
PrgaStep(w, n) ==
    LET x == PrgaIndices(w, n)
        y == IF IndexOutOfBounds(x, n) THEN IndexError ELSE PrgaOutput(x, n)
    IN  [S |-> x.S, i |-> x.i, j |-> x.j, t |-> x.t, idx1 |-> x.idx1,
         idx2 |-> x.idx2, t_prime |-> y.t_prime, t_double |-> y.t_double,
         output |-> y.output]

\* A generator that starts every byte from the permutation and the counters
\* of the call, carrying nothing from one byte to the next.
PrgaStateless(S, steps, n) ==
    LET fresh == [S |-> S, i |-> 0, j |-> 0, t |-> 0, idx1 |-> 0, idx2 |-> 0,
                  t_prime |-> 0, t_double |-> 0, output |-> 0]
    IN  IF steps = 0 THEN fresh ELSE PrgaStep(fresh, n)

\* The working state after `steps` passes, starting from S_work = S, i = j = 0.
RECURSIVE PrgaState(_, _, _)
PrgaState(S, steps, n) ==
    IF steps = 0
    THEN [S |-> S, i |-> 0, j |-> 0, t |-> 0, idx1 |-> 0, idx2 |-> 0,
          t_prime |-> 0, t_double |-> 0, output |-> 0]
    ELSE PrgaStep(PrgaState(S, steps - 1, n), n)

\* rc4_plus_prga(S, length, N): the keystream array; S itself is not changed.
rc4_plus_prga(S, length, n) ==
    [step \in 0..(length - 1) |-> PrgaState(S, step + 1, n).output]

\* --------------------------------------------------------------- moves

\* self.all_swaps: every (i, j) with i < j.
all_swaps == {<<i, j>> : i \in 0..(N - 1), j \in 0..(N - 1)} \
             {m \in (0..(N - 1)) \X (0..(N - 1)) : m[1] >= m[2]}

total_swaps == (N * (N - 1)) \div 2

swaps_per_iteration == total_swaps \div 2

tabu_horizon == swaps_per_iteration

\* The permutations of [0, N).
SBoxPermutations == {p \in [0..(N - 1) -> 0..(N - 1)] :
                    \A a, b \in 0..(N - 1) : a # b => p[a] # p[b]}

\* The array with the four given entries.
Array4(a, b, c, d) ==
    [k \in 0..3 |-> IF k = 0 THEN a ELSE IF k = 1 THEN b ELSE IF k = 2 THEN c ELSE d]

\* Outcomes of np.random.shuffle drawn for the target of generate_challenge.
TargetStates == {Array4(2, 3, 0, 1)}

\* Outcomes of np.random.shuffle drawn for the initial candidate in __init__.
InitialCandidates == {Array4(0, 3, 2, 1)}

\* None, for a move and for an array.
NoMove == <<>>

NoArray == <<>>

\* ---------------------------------------------------------------- heap

VARIABLES
    heap,       \* reference -> array: the numpy arrays that are referenced
    self,       \* the TabuCracker's attributes
    pc,         \* worker thread -> its position in _run_loop / step
    loc,        \* worker thread -> the locals of _run_loop and of step
    stats,      \* worker thread -> <<>> or <<the dict step returned>>
    held,       \* worker thread -> <<>> or <<the dict its callback received last>>
    ctl,        \* the controlling thread: position, calls made
    lastState,  \* <<>> or <<the dict get_current_state returned last>>
    cbLog,      \* worker thread -> the callback invocations of its run
    nsteps,     \* worker thread -> step() calls its run has begun
    stopRaised, \* workers that stop() has signalled while they were alive
    stopReturned, \* workers whose stop(), called right after run(), has returned
    lastCommitted, \* the attack state when the last completed step returned
    eng,        \* the frame of a call of rc4_plus_prga, and its caller's array
    rc4,        \* the RC4Engine object (RC4Classic or RC4Plus) in use
    setup,      \* the calls of generate_rc4_plus_keystream and of TabuCracker()
    twin,       \* two Crackers on one target keystream, stepped together
    cipher      \* a message, its ciphertext and what was recovered from it

vars == <<heap, self, pc, loc, stats, held, ctl, lastState, cbLog, nsteps,
          stopRaised, stopReturned, lastCommitted, eng, rc4, setup, twin,
          cipher>>

\* The variables outside the attack and the keystream engine.
sideVars == <<setup, twin, cipher>>

\* The variables of the attack.
crackerVars == <<heap, self, pc, loc, stats, held, ctl, lastState, cbLog,
                 nsteps, stopRaised, stopReturned, lastCommitted>>

\* The variables of the keystream engines.
engineVars == <<eng, rc4>>

Workers == 1..MaxRuns

\* The references not in `used` among which the next k allocations fall.
FreeRefs(used, k) == (1..(Cardinality(used) + k)) \ used

\* The k smallest references not in `used`, in increasing order.
FreshRefs(used, k) ==
    LET free == FreeRefs(used, k)
    IN  [i \in 1..k |->
            CHOOSE r \in free : Cardinality({x \in free : x <= r}) = i]

\* The heap with `arrays` (a sequence) allocated at the references `refs`.
Allocate(h, refs, arrays) ==
    [r \in DOMAIN h \cup {refs[k] : k \in 1..Len(refs)} |->
        IF \E k \in 1..Len(refs) : refs[k] = r
        THEN arrays[CHOOSE k \in 1..Len(refs) : refs[k] = r]
        ELSE h[r]]

\* The array attributes of the Cracker.
SelfArrayFields == {"target_keystream", "target_state", "current_candidate",
                    "best_candidate", "current_predicted_keystream",
                    "best_predicted_keystream"}

\* The array entries of the dict returned by step.
StatsArrayKeys == {"best_candidate", "current_candidate", "display_candidate",
                   "target_state", "predicted_keystream",
                   "best_predicted_keystream", "target_keystream"}

\* The array entries of the dict returned by get_current_state.
StateArrayKeys == {"candidate", "best_candidate", "target_state",
                   "predicted_keystream", "target_keystream"}

SelfRefs == {self[f] : f \in SelfArrayFields}

StatsRefs(d) == {d[k] : k \in StatsArrayKeys}

StateRefs(d) == {d[k] : k \in StateArrayKeys}

\* References a consumer holds: the dicts delivered to callbacks and the dict
\* returned by get_current_state.
ConsumerRefs ==
    UNION {StatsRefs(held[w][1]) : w \in {v \in Workers : held[v] # <<>>}}
    \cup (IF lastState = <<>> THEN {} ELSE StateRefs(lastState[1]))

\* References a worker holds in its locals.
WorkerRefs ==
    UNION {StatsRefs(stats[w][1]) : w \in {v \in Workers : stats[v] # <<>>}}
    \cup {loc[w].previous_candidate : w \in Workers}
    \cup {loc[w].best_neighbor : w \in Workers}

\* The arrays the caller passed to TabuCracker() as target_keystream and as
\* target_state, which it still holds.
CallerRefs == {7, 8}

\* Every reference some variable holds (0 is None).
LiveRefs == (SelfRefs \cup ConsumerRefs \cup WorkerRefs \cup CallerRefs) \ {0}

\* Arrays no variable references any more are freed.
Collect(h, live) == [r \in live |-> h[r]]

\* ------------------------------------------------- TabuCracker, sequential

\* The arrays of N entries below N: every value an S-box array of the
\* Cracker can hold.
SBoxArrays == [0..(N - 1) -> 0..(N - 1)]

\* rc4_plus_prga(S, keystream_length, N) for every S-box array S, as pairs
\* <<S, keystream>>.
Keystreams == {<<S, rc4_plus_prga(S, KeystreamLength, N)>> : S \in SBoxArrays}

\* A generator that ignores the candidate and returns the keystream of the
\* identity permutation.
KeystreamOfIdentity(S) ==
    rc4_plus_prga([k \in 0..(N - 1) |-> k], KeystreamLength, N)

\* _generate_keystream(S)
GenerateKeystream(S) == (CHOOSE p \in Keystreams : p[1] = S)[2]

\* A score that also subtracts the positions that differ.
CountSigned(ks, target) ==
    Cardinality({k \in 0..(KeystreamLength - 1) : ks[k] = target[k]})
        - Cardinality({k \in 0..(KeystreamLength - 1) : ks[k] # target[k]})

\* np.sum(candidate_keystream == self.target_keystream)
CountMatches(ks, target) ==
    Cardinality({k \in 0..(KeystreamLength - 1) : ks[k] = target[k]})

\* _calculate_fitness(candidate), against the target keystream array.
CalculateFitness(candidate, target_keystream) ==
    CountMatches(GenerateKeystream(candidate), target_keystream)

\* A copy of candidate in which entry j overwrites entry i and nothing is
\* exchanged.
ApplyOverwrite(candidate, i, j) == [candidate EXCEPT ![i] = candidate[j]]

\* A copy of candidate in which nothing is exchanged.
ApplyNothing(candidate, i, j) == candidate

\* _apply_swap(candidate, i, j): a new array, candidate with i and j swapped.
ApplySwap(candidate, i, j) == SwapAt(candidate, i, j)

\* _get_random_swaps(): the possible outcomes, num_swaps distinct moves in
\* the order np.random.choice drew them.
RandomSwaps ==
    LET num_swaps == Min(swaps_per_iteration, Cardinality(all_swaps))
    IN  {s \in [1..num_swaps -> all_swaps] :
            \A a, b \in 1..num_swaps : a # b => s[a] # s[b]}

\* The draws of _get_random_swaps the threads are run on: the moves through
\* position 0 in index order, and the moves that leave position 0 alone.
SwapDraws ==
    {s \in RandomSwaps :
        \/ s = <<(<<0, 1>>), (<<0, 2>>), (<<0, 3>>)>>
        \/ s = <<(<<1, 2>>), (<<1, 3>>), (<<2, 3>>)>>}

\* _is_tabu(move)
IsTabu(tabu_set, move) == move \in tabu_set

\* Recording a move in a queue without maxlen: nothing is ever evicted.
AddToTabuUnbounded(tabu_deque, tabu_set, move) ==
    [tabu_deque |-> Append(tabu_deque, move), tabu_set |-> tabu_set \cup {move}]

\* Recording a move without lines 237-239: the queue drops its oldest entry
\* and the membership set keeps it.
AddToTabuNoDiscard(tabu_deque, tabu_set, move) ==
    [tabu_deque |-> Append(IF Len(tabu_deque) >= tabu_horizon
                           THEN Tail(tabu_deque) ELSE tabu_deque, move),
     tabu_set |-> tabu_set \cup {move}]

\* _add_to_tabu(move): the new [tabu_deque, tabu_set].  The deque has
\* maxlen = tabu_horizon, so append on a full deque drops its first entry.
AddToTabu(tabu_deque, tabu_set, move) ==
    LET full == Len(tabu_deque) >= tabu_horizon
        set1 == IF full THEN tabu_set \ {tabu_deque[1]} ELSE tabu_set
        deque1 == IF full /\ Len(tabu_deque) > 0 THEN Tail(tabu_deque) ELSE tabu_deque
    IN  [tabu_deque |-> Append(deque1, move), tabu_set |-> set1 \cup {move}]

\* A test that lets every neighbor through.
AlwaysAdmissible(is_tabu, fitness, best_fitness) == TRUE

\* A test under which the best-ever candidate is never replaced.
NeverImproves(fitness, best_fitness) == FALSE

\* A test that also replaces the best-ever candidate on a tie.
ImprovesOrTies(fitness, best_fitness) == fitness >= best_fitness

\* Line 298 of step: the applied neighbor beats the best-ever fitness.
Improves(fitness, best_fitness) == fitness > best_fitness

\* The admission test of step for one sampled move.
Admissible(is_tabu, fitness, best_fitness) == (~is_tabu) \/ fitness > best_fitness

\* The for loop of step over swaps_to_check[idx..]: acc is
\* [best_neighbor, best_neighbor_fitness, best_move].
RECURSIVE SelectFrom(_, _, _, _, _, _, _)
SelectFrom(acc, idx, swaps, candidate, target_keystream, best_fitness, tabu_set) ==
    IF idx > Len(swaps) THEN acc
    ELSE LET move == swaps[idx]
             neighbor == ApplySwap(candidate, move[1], move[2])
             fitness == CalculateFitness(neighbor, target_keystream)
             is_tabu == IsTabu(tabu_set, move)
             acc1 == IF Admissible(is_tabu, fitness, best_fitness)
                        /\ fitness > acc.best_neighbor_fitness
                     THEN [best_neighbor |-> neighbor,
                           best_neighbor_fitness |-> fitness,
                           best_move |-> move]
                     ELSE acc
         IN  SelectFrom(acc1, idx + 1, swaps, candidate, target_keystream,
                        best_fitness, tabu_set)

\* A selection that takes no neighbor unless it beats the candidate it
\* starts from.
SelectImproving(swaps, candidate, target_keystream, best_fitness, tabu_set) ==
    SelectFrom([best_neighbor |-> NoArray,
                best_neighbor_fitness |->
                    CalculateFitness(candidate, target_keystream),
                best_move |-> NoMove],
               1, swaps, candidate, target_keystream, best_fitness, tabu_set)

\* A selection that walks the sampled swaps from the last to the first, so
\* that a tie keeps the last one in sampling order.
SelectBackwards(swaps, candidate, target_keystream, best_fitness, tabu_set) ==
    SelectFrom([best_neighbor |-> NoArray, best_neighbor_fitness |-> -1,
                best_move |-> NoMove],
               1, [k \in 1..Len(swaps) |-> swaps[Len(swaps) + 1 - k]],
               candidate, target_keystream, best_fitness, tabu_set)

\* Lines 258-286 of step: the neighbor chosen among the sampled swaps.
SelectMove(swaps, candidate, target_keystream, best_fitness, tabu_set) ==
    SelectFrom([best_neighbor |-> NoArray, best_neighbor_fitness |-> -1,
                best_move |-> NoMove],
               1, swaps, candidate, target_keystream, best_fitness, tabu_set)

\* ------------------------------------------------------------ snapshots

\* A dict of step that hands out the Cracker's own current_candidate array
\* in place of a copy: the sharing that the copies of lines 318-329 prevent.
StatsDictShared(s, l, c) ==
    [iteration |-> s.iteration,
     current_fitness |-> s.current_fitness,
     best_fitness |-> s.best_fitness,
     tabu_size |-> Len(s.tabu_deque),
     move_accepted |-> l.best_move,
     best_candidate |-> c[1],
     current_candidate |-> s.current_candidate,
     display_candidate |-> l.previous_candidate,
     target_state |-> c[3],
     predicted_keystream |-> c[4],
     best_predicted_keystream |-> c[5],
     target_keystream |-> c[6],
     current_swap |-> s.current_swap]

\* The dict step returns (lines 315-331); c holds the references of the six
\* copies made for it, display_candidate is the local previous_candidate.
StatsDict(s, l, c) ==
    [iteration |-> s.iteration,
     current_fitness |-> s.current_fitness,
     best_fitness |-> s.best_fitness,
     tabu_size |-> Len(s.tabu_deque),
     move_accepted |-> l.best_move,
     best_candidate |-> c[1],
     current_candidate |-> c[2],
     display_candidate |-> l.previous_candidate,
     target_state |-> c[3],
     predicted_keystream |-> c[4],
     best_predicted_keystream |-> c[5],
     target_keystream |-> c[6],
     current_swap |-> s.current_swap]

\* The arrays copied for the dict of step, in the order of c above.
StatsCopies(s, h) ==
    <<h[s.best_candidate], h[s.current_candidate], h[s.target_state],
      h[s.current_predicted_keystream], h[s.best_predicted_keystream],
      h[s.target_keystream]>>

\* The dict get_current_state returns (lines 377-389); c holds the
\* references of its five copies.
StateDict(s, c) ==
    [candidate |-> c[1],
     best_candidate |-> c[2],
     fitness |-> s.current_fitness,
     best_fitness |-> s.best_fitness,
     iteration |-> s.iteration,
     tabu_size |-> Len(s.tabu_deque),
     target_state |-> c[3],
     predicted_keystream |-> c[4],
     target_keystream |-> c[5]]

\* The arrays copied for the dict of get_current_state, in the order of c.
StateCopies(s, h) ==
    <<h[s.current_candidate], h[s.best_candidate], h[s.target_state],
      h[s.current_predicted_keystream], h[s.target_keystream]>>

\* The attack state by value, as get_current_state reports it.
AttackState(s, h) ==
    [candidate |-> h[s.current_candidate],
     best_candidate |-> h[s.best_candidate],
     fitness |-> s.current_fitness,
     best_fitness |-> s.best_fitness,
     iteration |-> s.iteration,
     tabu_size |-> Len(s.tabu_deque),
     predicted_keystream |-> h[s.current_predicted_keystream]]

\* A dict of get_current_state by value.
StateValues(d, h) ==
    [candidate |-> h[d.candidate],
     best_candidate |-> h[d.best_candidate],
     fitness |-> d.fitness,
     best_fitness |-> d.best_fitness,
     iteration |-> d.iteration,
     tabu_size |-> d.tabu_size,
     predicted_keystream |-> h[d.predicted_keystream]]

\* ------------------------------------------------- keystream engines, state

\* The array sizes the engines are run at.
EngineSizes == {4, 64, 128, 256}

\* The keys given to ksa, as key_bytes = [ord(c) for c in key].
Keys == {<<>>, <<1>>, <<2, 3>>, <<75, 101, 121>>}

\* No call of rc4_plus_prga has been made yet.
NoFrame ==
    [pc |-> "idle", n |-> 0, length |-> 0, mem |-> <<>>, S |-> 0,
     S_work |-> 0, i |-> 0, j |-> 0, step |-> 0, keystream |-> <<>>,
     x |-> <<>>, y |-> <<>>, calls |-> 0, P |-> <<>>, first |-> <<>>]

\* No RC4Engine object has been constructed yet.
NoEngine ==
    [cls |-> "none", N |-> 0, S |-> <<>>, i |-> 0, j |-> 0, out |-> <<>>,
     keyed |-> FALSE, raised |-> FALSE, key_bytes |-> <<>>]

\* The working array is the caller's array itself: S_work = S.
ShareArray(mem, ref) == [mem |-> mem, ref |-> ref]

\* S_work = S.copy(): a new array with the elements of the one at ref.
CopyArray(mem, ref) == [mem |-> Append(mem, mem[ref]), ref |-> Len(mem) + 1]

\* The locals i, j and keystream carried over from the frame before.
StaleLocals(length) ==
    [i |-> eng.i, j |-> eng.j, keystream |-> [k \in 0..(length - 1) |-> 0]]

\* i, j = 0, 0 and keystream = np.zeros(length, dtype=np.uint8)
FreshLocals(length) ==
    [i |-> 0, j |-> 0, keystream |-> [k \in 0..(length - 1) |-> 0]]

\* The frame of rc4_plus_prga(P, length, n) when it reaches its for loop;
\* mem[1] is the caller's array P.
PrgaEnter(P, length, n) ==
    LET c == CopyArray(<<P>>, 1)
        l == FreshLocals(length)
    IN  [pc |-> "loop", n |-> n, length |-> length, mem |-> c.mem, S |-> 1,
         S_work |-> c.ref, i |-> l.i, j |-> l.j, step |-> 0,
         keystream |-> l.keystream, x |-> <<>>, y |-> <<>>,
         calls |-> eng.calls + 1, P |-> P,
         first |-> IF eng.calls = 0 THEN <<>> ELSE eng.keystream]

\* One pass of the KSA mixing loop of ksa, at index i, on st = [S, j].
KsaStep(st, i, key_bytes, n) ==
    LET j == (st.j + st.S[i] + key_bytes[(i % Len(key_bytes)) + 1]) % n
    IN  [S |-> SwapAt(st.S, i, j), j |-> j]

\* The passes of the KSA mixing loop for i = lo, ..., hi - 1 in that order.
\* The range is halved to keep the evaluation shallow; the test on left.j
\* is always true and makes the first half be computed before the second.
RECURSIVE KsaRange(_, _, _, _, _)
KsaRange(st, lo, hi, key_bytes, n) ==
    IF hi <= lo
    THEN st
    ELSE IF hi = lo + 1
         THEN KsaStep(st, lo, key_bytes, n)
         ELSE LET mid == (lo + hi) \div 2
                  left == KsaRange(st, lo, mid, key_bytes, n)
              IN  IF left.j \in 0..(n - 1)
                  THEN KsaRange(left, mid, hi, key_bytes, n)
                  ELSE left

\* The KSA mixing loop of ksa: for i in range(self.N), from j = 0.
KsaMix(S, key_bytes, n) == KsaRange([S |-> S, j |-> 0], 0, n, key_bytes, n).S

\* RC4Classic.prga_step on the object r.
ClassicStep(r) ==
    LET i == (r.i + 1) % r.N
        j == (r.j + r.S[i]) % r.N
        S == SwapAt(r.S, i, j)
        t == (S[i] + S[j]) % r.N
    IN  [S |-> S, i |-> i, j |-> j, output_byte |-> S[t]]

\* RC4Plus.prga_step on the object r.
PlusStep(r) ==
    LET i == And255(r.i + 1)
        j == And255(r.j + r.S[i])
        S == SwapAt(r.S, i, j)
        t == And255(S[i] + S[j])
        idx1 == And255(Xor(ShiftRight(i, 3), And255(ShiftLeft(j, 5))))
        idx2 == And255(Xor(And255(ShiftLeft(i, 5)), ShiftRight(j, 3)))
        t_prime == And255(Xor(And255(S[idx1] + S[idx2]), 170))
        t_double == And255(j + S[j])
        output_byte == And255(Xor(And255(S[t] + S[t_prime]), S[t_double]))
    IN  [S |-> S, i |-> i, j |-> j, output_byte |-> output_byte]

\* ------------------------------------------------------ setup, state

\* Neither generate_rc4_plus_keystream nor TabuCracker() was called yet.
NoSetup ==
    [gen |-> [pc |-> "idle", N |-> 0, length |-> 0, target_state |-> NoArray,
              target_keystream |-> NoArray],
     new |-> [pc |-> "idle", N |-> 0, attrs |-> <<>>]]

\* No pair of Crackers was constructed yet.
NoTwin == <<>>

\* No message was encrypted yet.
NoCipher ==
    [pc |-> "idle", plaintext |-> <<>>, key_bytes |-> <<>>,
     keystream |-> <<>>, ciphertext |-> <<>>, keystream_decrypt |-> <<>>,
     recovered |-> <<>>]

\* ------------------------------------------------------------ construction

\* The locals of a worker outside step.
\* The attribute is the very array that was passed in.
PassedArray(copy, passed) == passed

\* np.array(target_keystream, dtype=np.uint8) and target_state.copy(): the
\* attribute is a new array, not the one that was passed in.
OwnArray(copy, passed) == copy

NoLocals(max_iterations, k) ==
    [max_iterations |-> max_iterations, k |-> k, previous_candidate |-> 0,
     best_neighbor |-> 0, best_neighbor_fitness |-> -1, best_move |-> NoMove]

\* TabuCracker.__init__ on the challenge (target_state, its keystream) with
\* `candidate` the shuffled initial candidate: the attributes and the heap.
Construct(target_state, candidate) ==
    LET target_keystream == rc4_plus_prga(target_state, KeystreamLength, N)
        keystream == GenerateKeystream(candidate)
        fitness == CalculateFitness(candidate, target_keystream)
    IN  [heap |-> Allocate(<<>>, <<1, 2, 3, 4, 5, 6, 7, 8>>,
                           <<target_keystream, target_state, candidate,
                             candidate, keystream, keystream,
                             target_keystream, target_state>>),
         self |-> [target_keystream |-> OwnArray(1, 7),
                   target_state |-> OwnArray(2, 8),
                   current_candidate |-> 3,
                   best_candidate |-> 4,
                   best_fitness |-> fitness,
                   tabu_deque |-> <<>>,
                   tabu_set |-> {},
                   iteration |-> 0,
                   current_fitness |-> fitness,
                   current_predicted_keystream |-> 5,
                   best_predicted_keystream |-> 6,
                   current_swap |-> NoMove,
                   running |-> FALSE,
                   thread |-> 0,
                   lock |-> FALSE]]

\* The state right after TabuCracker(target_keystream, N, target_state) was
\* constructed, with `candidate` the outcome of the shuffle.
Constructed(target_state, candidate) ==
    LET made == Construct(target_state, candidate)
    IN  /\ heap = made.heap
        /\ self = made.self
        /\ pc = [w \in Workers |-> "unborn"]
        /\ loc = [w \in Workers |-> NoLocals(0, 0)]
        /\ stats = [w \in Workers |-> <<>>]
        /\ held = [w \in Workers |-> <<>>]
        /\ ctl = [pc |-> "idle", runs |-> 0, stops |-> 0, queries |-> 0,
                  lastWasRun |-> FALSE, afterRun |-> FALSE]
        /\ lastState = <<>>
        /\ cbLog = [w \in Workers |-> <<>>]
        /\ nsteps = [w \in Workers |-> 0]
        /\ stopRaised = {}
        /\ stopReturned = {}
        /\ lastCommitted = AttackState(made.self, made.heap)
        /\ eng = NoFrame
        /\ rc4 = NoEngine
        /\ setup = NoSetup
        /\ twin = NoTwin
        /\ cipher = NoCipher

Init ==
    \E target_state \in TargetStates, candidate \in InitialCandidates :
        Constructed(target_state, candidate)

\* A thread that has been started and has not ended.
Alive(w) == pc[w] \notin {"unborn", "done", "crashed"}

\* --------------------------------------------------------------- step

\* An entry that does not wait for the lock: get_current_state and step
\* without their with self.lock.
LockIgnored(s) == TRUE

\* with self.lock: entering the block needs the lock to be free.
LockFree(s) == ~s.lock

\* Lines 254-310: take the lock, copy the candidate, sample the swaps and
\* select the best admissible neighbor; if there is one, move to it, update
\* the best-ever state and record the move.
\* The selection and the new keystream are computed once and bound (sel,
\* keystream), as the locals of step are.
StepBegin(w, swaps) ==
    /\ pc[w] = "step"
    /\ LockFree(self)
    /\ \E sel \in {SelectMove(swaps, heap[self.current_candidate],
                                heap[self.target_keystream],
                                self.best_fitness, self.tabu_set)} :
       \E keystream \in {IF sel.best_move # NoMove
                         THEN GenerateKeystream(sel.best_neighbor)
                         ELSE NoArray} :
       LET candidate == heap[self.current_candidate]
           found == sel.best_move # NoMove
           improved == found /\ Improves(sel.best_neighbor_fitness, self.best_fitness)
           \* previous_candidate, best_neighbor, the new predicted keystream,
           \* best_neighbor.copy(), current_predicted_keystream.copy()
           r == FreshRefs(DOMAIN heap, 5)
           h1 == IF ~found THEN Allocate(heap, <<r[1]>>, <<candidate>>)
                 ELSE IF ~improved
                 THEN Allocate(heap, <<r[1], r[2], r[3]>>,
                               <<candidate, sel.best_neighbor, keystream>>)
                 ELSE Allocate(heap, r, <<candidate, sel.best_neighbor, keystream,
                                          sel.best_neighbor, keystream>>)
           tabu == AddToTabu(self.tabu_deque, self.tabu_set, sel.best_move)
       IN  /\ loc' = [loc EXCEPT ![w].previous_candidate = r[1],
                                 ![w].best_neighbor = IF found THEN r[2] ELSE 0,
                                 ![w].best_neighbor_fitness = sel.best_neighbor_fitness,
                                 ![w].best_move = sel.best_move]
           /\ self' =
                 IF ~found THEN [self EXCEPT !.lock = TRUE]
                 ELSE [self EXCEPT
                         !.lock = TRUE,
                         !.current_candidate = r[2],
                         !.current_fitness = sel.best_neighbor_fitness,
                         !.current_swap = sel.best_move,
                         !.current_predicted_keystream = r[3],
                         !.best_candidate = IF improved THEN r[4] ELSE @,
                         !.best_fitness = IF improved THEN sel.best_neighbor_fitness ELSE @,
                         !.best_predicted_keystream = IF improved THEN r[5] ELSE @,
                         !.tabu_deque = tabu.tabu_deque,
                         !.tabu_set = tabu.tabu_set]
           /\ pc' = [pc EXCEPT ![w] = "finish"]
           /\ UNCHANGED <<sideVars, eng, rc4, stats, held, ctl, lastState, cbLog, nsteps,
                          stopRaised, stopReturned, lastCommitted>>
           /\ \E h1v \in {h1} : heap' = Collect(h1v, LiveRefs')

\* A block that is left with the lock still held.
LockKept(s) == s

\* Leaving the with block releases the lock.
Release(s) == [s EXCEPT !.lock = FALSE]

\* Lines 312-331: count the iteration, build the returned dict, release the
\* lock on the way out.
StepFinish(w) ==
    /\ pc[w] = "finish"
    /\ LET s1 == [self EXCEPT !.iteration = @ + 1]
           r == FreshRefs(DOMAIN heap, 6)
           h1 == Allocate(heap, r, StatsCopies(s1, heap))
       IN  /\ stats' = [stats EXCEPT ![w] = <<StatsDict(s1, loc[w], r)>>]
           /\ self' = Release(s1)
           /\ loc' = [loc EXCEPT ![w] = NoLocals(@.max_iterations, @.k)]
           /\ lastCommitted' = AttackState(s1, heap)
           /\ pc' = [pc EXCEPT ![w] = "callback"]
           /\ UNCHANGED <<sideVars, eng, rc4, held, ctl, lastState, cbLog, nsteps, stopRaised,
                          stopReturned>>
           /\ heap' = Collect(h1, LiveRefs')

\* ------------------------------------------------------------- _run_loop

\* Line 344: the first statement of the worker thread.
ThreadStart(w) ==
    /\ pc[w] = "start"
    /\ self' = [self EXCEPT !.running = TRUE]
    /\ pc' = [pc EXCEPT ![w] = "loop"]
    /\ UNCHANGED <<sideVars, eng, rc4, heap, loc, stats, held, ctl, lastState, cbLog, nsteps,
                   stopRaised, stopReturned, lastCommitted>>

\* A range that never has an item: the loop body is not entered.
RangeEmpty(k, max_iterations) == FALSE

\* for _ in range(max_iterations): whether the range still has an item.
RangeHasNext(k, max_iterations) == k < max_iterations

\* Lines 345-347: the loop head; the range is exhausted, or the iteration
\* begins unless the stop flag is seen.
LoopHead(w) ==
    /\ pc[w] = "loop"
    /\ IF ~RangeHasNext(loc[w].k, loc[w].max_iterations)
       THEN /\ pc' = [pc EXCEPT ![w] = "exit"]
            /\ UNCHANGED <<loc, nsteps>>
       ELSE /\ loc' = [loc EXCEPT ![w].k = @ + 1]
            /\ IF ~self.running
               THEN /\ pc' = [pc EXCEPT ![w] = "exit"]
                    /\ UNCHANGED nsteps
               ELSE /\ pc' = [pc EXCEPT ![w] = "step"]
                    /\ nsteps' = [nsteps EXCEPT ![w] = @ + 1]
    /\ UNCHANGED <<sideVars, eng, rc4, heap, self, stats, held, ctl, lastState, cbLog,
                   stopRaised, stopReturned, lastCommitted>>

\* Lines 351-352: callback(stats).  The callback is the caller's code: it
\* returns, or it raises, and nothing in _run_loop catches what it raises.
Callback(w, raises) ==
    /\ pc[w] = "callback"
    /\ cbLog' = [cbLog EXCEPT ![w] =
                    Append(@, [what |-> "stats",
                               iteration |-> stats[w][1].iteration,
                               best_fitness |-> stats[w][1].best_fitness])]
    /\ held' = [held EXCEPT ![w] = stats[w]]
    /\ stats' = [stats EXCEPT ![w] = <<>>]
    /\ pc' = [pc EXCEPT ![w] = IF raises THEN "crashed" ELSE "check"]
    /\ UNCHANGED <<sideVars, eng, rc4, self, loc, ctl, lastState, nsteps, stopRaised,
                   stopReturned, lastCommitted>>
    /\ heap' = Collect(heap, LiveRefs')

\* A loop without the test of line 354: a solution does not end it.
SolutionIgnored(best_fitness, keystream_length) == FALSE

\* Line 354: self.best_fitness == self.keystream_length
FoundSolution(best_fitness, keystream_length) == best_fitness = keystream_length

\* Lines 354-359: leave the loop on a solution, else sleep and loop.
LoopCheck(w) ==
    /\ pc[w] = "check"
    /\ pc' = [pc EXCEPT ![w] =
                 IF FoundSolution(self.best_fitness, KeystreamLength)
                 THEN "exit" ELSE "loop"]
    /\ UNCHANGED <<sideVars, eng, rc4, heap, self, loc, stats, held, ctl, lastState, cbLog,
                   nsteps, stopRaised, stopReturned, lastCommitted>>

\* Line 361: self.running = False, and the thread ends.
LoopExit(w) ==
    /\ pc[w] = "exit"
    /\ self' = [self EXCEPT !.running = FALSE]
    /\ pc' = [pc EXCEPT ![w] = "done"]
    /\ UNCHANGED <<sideVars, eng, rc4, heap, loc, stats, held, ctl, lastState, cbLog, nsteps,
                   stopRaised, stopReturned, lastCommitted>>

\* ------------------------------------------------- the controlling thread

\* run(max_iterations, callback): lines 363-364, a new thread is created
\* and started whatever the state of an earlier one.
Run(max_iterations) ==
    /\ ctl.pc = "idle"
    /\ ctl.runs < MaxRuns
    /\ LET w == ctl.runs + 1
       IN  /\ pc' = [pc EXCEPT ![w] = "start"]
           /\ loc' = [loc EXCEPT ![w] = NoLocals(max_iterations, 0)]
           /\ self' = [self EXCEPT !.thread = w]
    /\ ctl' = [ctl EXCEPT !.runs = @ + 1, !.lastWasRun = TRUE]
    /\ UNCHANGED <<sideVars, eng, rc4, heap, stats, held, lastState, cbLog, nsteps, stopRaised,
                   stopReturned, lastCommitted>>

\* stop(), lines 368-369: lower the flag, then join if there is a thread.
StopSignal ==
    /\ ctl.pc = "idle"
    /\ ctl.stops < MaxStops
    /\ self' = [self EXCEPT !.running = FALSE]
    /\ stopRaised' = stopRaised \cup {w \in Workers : Alive(w)}
    /\ ctl' = IF self.thread # 0
              THEN [ctl EXCEPT !.pc = "join", !.stops = @ + 1,
                               !.afterRun = ctl.lastWasRun]
              ELSE [ctl EXCEPT !.stops = @ + 1, !.lastWasRun = FALSE]
    /\ UNCHANGED <<sideVars, eng, rc4, heap, pc, loc, stats, held, lastState, cbLog, nsteps,
                   stopReturned, lastCommitted>>

\* stop() returns to its caller.
StopReturn ==
    /\ ctl' = [ctl EXCEPT !.pc = "idle", !.lastWasRun = FALSE, !.afterRun = FALSE]
    /\ stopReturned' = IF ctl.afterRun THEN stopReturned \cup {self.thread}
                       ELSE stopReturned
    /\ UNCHANGED <<sideVars, eng, rc4, heap, self, pc, loc, stats, held, lastState, cbLog, nsteps,
                   stopRaised, lastCommitted>>

\* Line 370: join returns because the thread has ended.
JoinEnded ==
    /\ ctl.pc = "join"
    /\ ~Alive(self.thread)
    /\ StopReturn

\* Line 370: join(timeout=1.0) returns because the second has passed.
JoinTimeout ==
    /\ ctl.pc = "join"
    /\ Alive(self.thread)
    /\ StopReturn

\* get_current_state(), line 376: take the lock.
GcsEnter ==
    /\ ctl.pc = "idle"
    /\ ctl.queries < MaxQueries
    /\ LockFree(self)
    /\ self' = [self EXCEPT !.lock = TRUE]
    /\ ctl' = [ctl EXCEPT !.pc = "gcs", !.queries = @ + 1]
    /\ UNCHANGED <<sideVars, eng, rc4, heap, pc, loc, stats, held, lastState, cbLog, nsteps,
                   stopRaised, stopReturned, lastCommitted>>

\* get_current_state(), lines 377-389: copy the state out and release.
GcsReturn ==
    /\ ctl.pc = "gcs"
    /\ LET r == FreshRefs(DOMAIN heap, 5)
           h1 == Allocate(heap, r, StateCopies(self, heap))
           d == StateDict(self, r)
       IN  /\ lastState' = <<d>>
           /\ self' = Release(self)
           /\ ctl' = [ctl EXCEPT !.pc = "idle", !.lastWasRun = FALSE]
           /\ UNCHANGED <<sideVars, eng, rc4, pc, loc, stats, held, cbLog, nsteps, stopRaised,
                          stopReturned, lastCommitted>>
           /\ heap' = Collect(h1, LiveRefs')

\* The array with every entry overwritten by 0.
Zeroed(a) == [k \in DOMAIN a |-> 0]

\* A consumer writes into the arrays of a dict it was given (refs): every
\* entry of each of them becomes 0.
ConsumerWrites(refs) ==
    /\ refs # {}
    /\ \E r \in refs : heap[r] # Zeroed(heap[r])
    /\ heap' = [r \in DOMAIN heap |-> IF r \in refs THEN Zeroed(heap[r]) ELSE heap[r]]
    /\ UNCHANGED <<sideVars, eng, rc4, self, pc, loc, stats, held, ctl, lastState, cbLog, nsteps,
                   stopRaised, stopReturned, lastCommitted>>

\* The consumers write into every dict they were given: the dicts the
\* callbacks received and the dict get_current_state returned.
ConsumersWrite == ConsumerWrites(ConsumerRefs \ {0})

WorkerNext(w) ==
    \/ ThreadStart(w)
    \/ LoopHead(w)
    \/ \E swaps \in SwapDraws : StepBegin(w, swaps)
    \/ StepFinish(w)
    \/ \E raises \in BOOLEAN : Callback(w, raises)
    \/ LoopCheck(w)
    \/ LoopExit(w)

\* run() and stop(), called from the controlling thread.
ControlNext ==
    \/ \E max_iterations \in 1..MaxIterations : Run(max_iterations)
    \/ StopSignal
    \/ JoinEnded
    \/ JoinTimeout

\* get_current_state(), called from the controlling thread.
QueryNext ==
    \/ GcsEnter
    \/ GcsReturn

\* The attack under run() and stop().
Next ==
    \/ \E w \in Workers : WorkerNext(w)
    \/ ControlNext

Spec == Init /\ [][Next]_vars

\* The attack under run() and get_current_state().
SnapshotNext ==
    \/ \E w \in Workers : WorkerNext(w)
    \/ \E max_iterations \in 1..MaxIterations : Run(max_iterations)
    \/ QueryNext

SnapshotSpec == Init /\ [][SnapshotNext]_vars

\* The first run() on the Cracker.
FirstRun(max_iterations) ==
    /\ ctl.runs = 0
    /\ Run(max_iterations)

\* One attack under get_current_state(), with consumers that write into
\* the dicts they receive.
ConsumerNext ==
    \/ \E w \in Workers : WorkerNext(w)
    \/ \E max_iterations \in 1..MaxIterations : FirstRun(max_iterations)
    \/ QueryNext
    \/ ConsumersWrite

ConsumerSpec == Init /\ [][ConsumerNext]_vars

\* One attack with stop() and get_current_state() called while it runs.
FairNext ==
    \/ \E w \in Workers : WorkerNext(w)
    \/ \E max_iterations \in 1..MaxIterations : FirstRun(max_iterations)
    \/ StopSignal
    \/ JoinEnded
    \/ JoinTimeout
    \/ QueryNext

\* Fair scheduling: a thread that can take its next statement eventually
\* takes it; this covers the worker threads and the thread that holds the
\* lock inside get_current_state.
Fairness ==
    /\ \A w \in Workers : WF_vars(WorkerNext(w))
    /\ WF_vars(GcsReturn)

FairSpec == Init /\ [][FairNext]_vars /\ Fairness

\* Outcomes of np.random.shuffle from which the search is followed.
SearchCandidates ==
    {Array4(0, 1, 2, 3), Array4(0, 2, 1, 3), Array4(1, 0, 3, 2)}

\* One long attack with every draw of _get_random_swaps: the search itself,
\* step after step.
SearchInit ==
    \E target_state \in TargetStates, candidate \in SearchCandidates :
        Constructed(target_state, candidate)

SearchWorkerNext(w) ==
    \/ ThreadStart(w)
    \/ LoopHead(w)
    \/ \E swaps \in RandomSwaps : StepBegin(w, swaps)
    \/ StepFinish(w)
    \/ \E raises \in BOOLEAN : Callback(w, raises)
    \/ LoopCheck(w)
    \/ LoopExit(w)

SearchNext ==
    \/ \E w \in Workers : SearchWorkerNext(w)
    \/ FirstRun(SearchIterations)

SearchSpec == SearchInit /\ [][SearchNext]_vars

\* Outcomes of np.random.shuffle whose keystream already is the target
\* keystream: the target permutation and every other one of full fitness.
SolvedCandidates(target_state) ==
    {p \in SBoxPermutations :
        CalculateFitness(p, rc4_plus_prga(target_state, KeystreamLength, N))
            = KeystreamLength}

\* A Cracker whose best fitness is the target length at construction.
SolvedInit ==
    \E target_state \in TargetStates :
        \E candidate \in SolvedCandidates(target_state) :
            Constructed(target_state, candidate)

\* One run() of 1 to SearchIterations iterations on it and no stop(), the
\* worker thread scheduled fairly.
SolvedNext ==
    \/ \E w \in Workers : SearchWorkerNext(w)
    \/ \E max_iterations \in 1..SearchIterations : FirstRun(max_iterations)

SolvedSpec ==
    /\ SolvedInit
    /\ [][SolvedNext]_vars
    /\ \A w \in Workers : WF_vars(SearchWorkerNext(w))

\* ----------------------------------------------- keystream engines, actions

\* RC4Classic(n) or RC4Plus(): RC4Plus always has N = 256.
NewEngine(cls, n) ==
    /\ rc4.cls = "none"
    /\ rc4' = [NoEngine EXCEPT !.cls = cls,
                               !.N = IF cls = "plus" THEN 256 ELSE n]
    /\ UNCHANGED <<eng, crackerVars, sideVars>>

\* engine.ksa(key): S is filled with 0..N-1 and mixed with the key; the
\* empty key raises ZeroDivisionError at the first key_bytes[i % key_length],
\* after S was filled.
Ksa(key_bytes) ==
    /\ rc4.cls # "none"
    /\ ~rc4.keyed
    /\ ~rc4.raised
    /\ LET S == [k \in 0..(rc4.N - 1) |-> k]
       IN  rc4' = IF Len(key_bytes) = 0
                  THEN [rc4 EXCEPT !.S = S, !.i = 0, !.j = 0, !.keyed = TRUE,
                                   !.raised = TRUE, !.key_bytes = key_bytes]
                  ELSE [rc4 EXCEPT !.S = KsaMix(S, key_bytes, rc4.N),
                                   !.i = 0, !.j = 0, !.keyed = TRUE,
                                   !.key_bytes = key_bytes]
    /\ UNCHANGED <<eng, crackerVars, sideVars>>

\* engine.prga_step(), as generate_keystream calls it once per byte; on an
\* engine that was never keyed S is empty and S[i] raises IndexError after i
\* was advanced.
RefStep ==
    /\ rc4.cls # "none"
    /\ ~rc4.raised
    /\ Len(rc4.out) < MaxLength
    /\ rc4' = IF ~rc4.keyed
              THEN [rc4 EXCEPT !.i = IF rc4.cls = "plus"
                                     THEN And255(rc4.i + 1)
                                     ELSE (rc4.i + 1) % rc4.N,
                               !.raised = TRUE]
              ELSE LET r == IF rc4.cls = "plus"
                            THEN PlusStep(rc4)
                            ELSE ClassicStep(rc4)
                   IN  [rc4 EXCEPT !.S = r.S, !.i = r.i, !.j = r.j,
                                   !.out = Append(rc4.out, r.output_byte)]
    /\ UNCHANGED <<eng, crackerVars, sideVars>>

\* rc4_plus_prga(P, length, N) is called on the S-box the engine holds after
\* ksa, before any prga_step: P is that array, N its size.
PrgaCall(length) ==
    /\ eng.pc = "idle"
    /\ rc4.keyed
    /\ rc4.N \in EngineSizes
    /\ rc4.out = <<>>
    /\ eng' = PrgaEnter(rc4.S, length, rc4.N)
    /\ UNCHANGED <<rc4, crackerVars, sideVars>>

\* A second call of rc4_plus_prga, on the caller's array of the first call
\* and with the same length and N, after the first call returned.
PrgaRepeat ==
    /\ eng.pc = "returned"
    /\ eng.calls < MaxCalls
    /\ eng' = PrgaEnter(eng.mem[eng.S], eng.length, eng.n)
    /\ UNCHANGED <<rc4, crackerVars, sideVars>>

\* One pass of the for loop of rc4_plus_prga, or its return when the range
\* is exhausted. The IndexError of lines 52-56 leaves the function with i, j
\* and S_work as lines 41-43 left them.
PrgaLoop ==
    /\ eng.pc = "loop"
    /\ IF eng.step >= eng.length
       THEN eng' = [eng EXCEPT !.pc = "returned"]
       ELSE LET w == [S |-> eng.mem[eng.S_work], i |-> eng.i, j |-> eng.j]
                x == PrgaIndices(w, eng.n)
                y == PrgaOutput(x, eng.n)
                mem == [eng.mem EXCEPT ![eng.S_work] = x.S]
            IN  IF IndexOutOfBounds(x, eng.n)
                THEN eng' = [eng EXCEPT !.pc = "raised", !.mem = mem,
                                        !.i = x.i, !.j = x.j,
                                        !.x = [t |-> x.t, idx1 |-> x.idx1,
                                               idx2 |-> x.idx2]]
                ELSE eng' = [eng EXCEPT !.mem = mem, !.i = x.i, !.j = x.j,
                                        !.x = [t |-> x.t, idx1 |-> x.idx1,
                                               idx2 |-> x.idx2],
                                        !.y = y,
                                        !.keystream[eng.step] = y.output,
                                        !.step = eng.step + 1]
    /\ UNCHANGED <<rc4, crackerVars, sideVars>>

EngineInit ==
    \E target_state \in TargetStates, candidate \in InitialCandidates :
        Constructed(target_state, candidate)

EngineNext ==
    \/ \E cls \in {"classic", "plus"}, n \in EngineSizes : NewEngine(cls, n)
    \/ \E key_bytes \in Keys : Ksa(key_bytes)
    \/ RefStep
    \/ \E length \in 0..MaxLength : PrgaCall(length)
    \/ PrgaRepeat
    \/ PrgaLoop

EngineSpec == EngineInit /\ [][EngineNext]_vars

\* The caller of TabuCracker() writes into the arrays it passed in.
CallerWrites == ConsumerWrites(CallerRefs)

\* One attack with stop() and get_current_state(), while the caller writes
\* into the arrays it constructed the Cracker from.
TargetNext ==
    \/ FairNext
    \/ CallerWrites

TargetSpec == Init /\ [][TargetNext]_vars

\* ---------------------------------------------------------- encryption

\* Each byte has the keystream byte added to it, modulo 256.
AddKeystream(data, keystream) ==
    [k \in 1..Min(Len(data), Len(keystream)) |->
        (data[k] + keystream[k]) % 256]

\* encrypt_decrypt(plaintext_bytes, keystream): [p ^ k for p, k in zip(...)]
encrypt_decrypt(data, keystream) ==
    [k \in 1..Min(Len(data), Len(keystream)) |-> Xor(data[k], keystream[k])]

\* The message is encrypted with the keystream the engine has emitted since
\* ksa, and a second engine of the same kind is constructed to decrypt it.
Encrypt(plaintext) ==
    /\ cipher.pc = "idle"
    /\ rc4.keyed
    /\ ~rc4.raised
    /\ cipher' = [cipher EXCEPT !.pc = "encrypted",
                                !.plaintext = plaintext,
                                !.key_bytes = rc4.key_bytes,
                                !.keystream = rc4.out,
                                !.ciphertext =
                                    encrypt_decrypt(plaintext, rc4.out)]
    /\ rc4' = [NoEngine EXCEPT !.cls = rc4.cls, !.N = rc4.N]
    /\ UNCHANGED <<eng, crackerVars, setup, twin>>

\* The ciphertext is decrypted with the keystream the second engine has
\* emitted since its ksa.
Decrypt ==
    /\ cipher.pc = "encrypted"
    /\ rc4.keyed
    /\ ~rc4.raised
    /\ cipher' = [cipher EXCEPT !.pc = "decrypted",
                                !.keystream_decrypt = rc4.out,
                                !.recovered =
                                    encrypt_decrypt(cipher.ciphertext, rc4.out)]
    /\ UNCHANGED <<rc4, eng, crackerVars, setup, twin>>

CipherNext ==
    \/ \E cls \in {"classic", "plus"}, n \in EngineSizes : NewEngine(cls, n)
    \/ \E key_bytes \in Keys : Ksa(key_bytes)
    \/ RefStep
    \/ \E plaintext \in {<<>>, <<72>>, <<72, 255>>, <<0, 105, 33>>} :
         Encrypt(plaintext)
    \/ Decrypt

CipherSpec == Init /\ [][CipherNext]_vars

\* ------------------------------------------------------ twin Crackers

\* The keystream positions read out of the target permutation, when there
\* is one.
TargetFromState(c) ==
    IF c.target_state = NoArray
    THEN c.target_keystream
    ELSE [k \in DOMAIN c.target_keystream |-> c.target_state[k]]

\* The array step measures every neighbor against: self.target_keystream
\* (line 202, through _calculate_fitness).
StepTarget(c) == c.target_keystream

\* step() on the attributes c of a Cracker, by value, when _get_random_swaps
\* returns `swaps`.
SearchStep(c, swaps) ==
    LET Taken(sel) ==
            LET found == sel.best_move # NoMove
                improved == found /\ Improves(sel.best_neighbor_fitness, c.best_fitness)
                tabu == AddToTabu(c.tabu_deque, c.tabu_set, sel.best_move)
            IN  [c EXCEPT
                   !.candidate = IF found THEN sel.best_neighbor ELSE @,
                   !.fitness = IF found THEN sel.best_neighbor_fitness ELSE @,
                   !.best_candidate = IF improved THEN sel.best_neighbor ELSE @,
                   !.best_fitness =
                       IF improved THEN sel.best_neighbor_fitness ELSE @,
                   !.tabu_deque = IF found THEN tabu.tabu_deque ELSE @,
                   !.tabu_set = IF found THEN tabu.tabu_set ELSE @,
                   !.iteration = @ + 1]
    IN  Taken(SelectMove(swaps, c.candidate, StepTarget(c), c.best_fitness,
                         c.tabu_set))

\* Two Crackers are constructed on the keystream of target_state and their
\* shuffles both give `candidate`; the first is given target_state, the
\* second is given `other` (a different permutation, or None).
NewTwins(target_state, candidate, other) ==
    /\ twin = NoTwin
    /\ LET target_keystream == rc4_plus_prga(target_state, KeystreamLength, N)
           fitness == CalculateFitness(candidate, target_keystream)
           c == [candidate |-> candidate, fitness |-> fitness,
                 best_candidate |-> candidate, best_fitness |-> fitness,
                 tabu_deque |-> <<>>, tabu_set |-> {}, iteration |-> 0,
                 target_keystream |-> target_keystream,
                 target_state |-> target_state]
       IN  twin' = <<c, [c EXCEPT !.target_state = other]>>
    /\ UNCHANGED <<crackerVars, engineVars, setup, cipher>>

\* Both Crackers take a step in which _get_random_swaps returns `swaps`.
TwinStep(swaps) ==
    /\ twin # NoTwin
    /\ twin[1].iteration < SearchIterations
    /\ twin' = <<SearchStep(twin[1], swaps), SearchStep(twin[2], swaps)>>
    /\ UNCHANGED <<crackerVars, engineVars, setup, cipher>>

TwinNext ==
    \/ \E target_state \in TargetStates, candidate \in SearchCandidates,
          other \in {NoArray, Array4(1, 0, 3, 2)} :
         NewTwins(target_state, candidate, other)
    \/ \E swaps \in RandomSwaps : TwinStep(swaps)

TwinSpec == Init /\ [][TwinNext]_vars

\* ----------------------------------------------------- setup, actions

\* A size test that lets every N through.
AnySize(n) == TRUE

\* N in [64, 128, 256], the test of generate_rc4_plus_keystream and of
\* TabuCracker.__init__.
ValidSize(n) == n \in {64, 128, 256}

\* The sizes the two are called with.
SetupSizes == {64, 100, 128, 256}

\* The lengths generate_rc4_plus_keystream is called with.
SetupLengths == -1..MaxLength

\* Outcomes of np.random.shuffle on np.arange(n) that are drawn.
Shuffles(n) ==
    {[k \in 0..(n - 1) |-> ((a * k) + b) % n] : a \in {1, 3}, b \in {0, 5}}

\* The number of positions at which two keystreams differ.
Mismatches(ks, target) == Cardinality({k \in DOMAIN ks : ks[k] # target[k]})

\* np.sum(candidate_keystream == self.target_keystream), for keystreams of
\* any length.
Matches(ks, target) == Cardinality({k \in DOMAIN ks : ks[k] = target[k]})

\* np.array(target_keystream, dtype=np.uint8)
AsUint8(a) == [k \in DOMAIN a |-> a[k] % 256]

\* The attributes TabuCracker.__init__ sets, by value, when N is accepted
\* and `candidate` is the outcome of its shuffle.
NewAttrs(target_keystream, n, target_state, candidate) ==
    LET keystream_length == Cardinality(DOMAIN target_keystream)
        keystream == rc4_plus_prga(candidate, keystream_length, n)
        fitness == Matches(keystream, AsUint8(target_keystream))
        total == (n * (n - 1)) \div 2
    IN  [N |-> n,
         target_keystream |-> AsUint8(target_keystream),
         keystream_length |-> keystream_length,
         target_state |-> target_state,
         total_swaps |-> total,
         swaps_per_iteration |-> total \div 2,
         tabu_horizon |-> total \div 2,
         current_candidate |-> candidate,
         best_candidate |-> candidate,
         best_fitness |-> fitness,
         tabu_deque |-> <<>>,
         tabu_set |-> {},
         iteration |-> 0,
         current_fitness |-> fitness,
         current_predicted_keystream |-> keystream,
         best_predicted_keystream |-> keystream,
         current_swap |-> NoMove,
         running |-> FALSE]

\* generate_rc4_plus_keystream(n, length), with `shuffled` the outcome of its
\* shuffle: ValueError on a size that is not accepted; on a negative length
\* np.zeros raises inside rc4_plus_prga and the error is passed on.
GenerateChallenge(n, length, shuffled) ==
    /\ setup.gen.pc = "idle"
    /\ setup' = [setup EXCEPT !.gen =
                    IF ~ValidSize(n) \/ length < 0
                    THEN [pc |-> "raised", N |-> n, length |-> length,
                          target_state |-> NoArray,
                          target_keystream |-> NoArray]
                    ELSE [pc |-> "returned", N |-> n, length |-> length,
                          target_state |-> shuffled,
                          target_keystream |->
                              rc4_plus_prga(shuffled, length, n)]]
    /\ UNCHANGED <<crackerVars, engineVars, twin, cipher>>

\* TabuCracker(target_keystream, n, target_state), with `candidate` the
\* outcome of its shuffle: ValueError on a size that is not accepted, before
\* any attribute is set.
NewCracker(target_keystream, n, target_state, candidate) ==
    /\ setup.new.pc = "idle"
    /\ setup' = [setup EXCEPT !.new =
                    IF ~ValidSize(n)
                    THEN [pc |-> "raised", N |-> n, attrs |-> <<>>]
                    ELSE [pc |-> "constructed", N |-> n,
                          attrs |-> NewAttrs(target_keystream, n,
                                             target_state, candidate)]]
    /\ UNCHANGED <<crackerVars, engineVars, twin, cipher>>

\* The keystreams a caller passes to TabuCracker(): one of its own, or the
\* one the generator returned.
CallerKeystreams ==
    {[k \in 0..0 |-> 0]}
    \cup (IF setup.gen.pc = "returned"
          THEN {setup.gen.target_keystream} ELSE {})

\* The target states a caller passes to TabuCracker(): None, or the one the
\* generator returned.
CallerStates ==
    {NoArray}
    \cup (IF setup.gen.pc = "returned" THEN {setup.gen.target_state} ELSE {})

SetupNext ==
    \/ \E n \in SetupSizes, length \in SetupLengths :
         \E shuffled \in Shuffles(n) : GenerateChallenge(n, length, shuffled)
    \/ \E n \in SetupSizes, target_keystream \in CallerKeystreams,
          target_state \in CallerStates :
         \E candidate \in Shuffles(n) :
            NewCracker(target_keystream, n, target_state, candidate)

SetupSpec == Init /\ [][SetupNext]_vars

\* run() called with any max_iterations, also none or a negative number.
RunNext ==
    \/ \E w \in Workers : WorkerNext(w)
    \/ \E max_iterations \in -1..MaxIterations : FirstRun(max_iterations)
    \/ QueryNext

RunSpec == Init /\ [][RunNext]_vars

\* ----------------------------------------------------------------- claims

Terminated(w) == pc[w] \in {"done", "crashed"}

\* The last entry of a non-empty callback log.
LastCall(w) == cbLog[w][Len(cbLog[w])]

\* C1: when stop() is called right after run() has returned, then once
\* stop() has returned the worker's callback is never invoked again and the
\* worker begins no further step.
C1_QuietAfterStopReturned ==
    [][\A w \in stopReturned : cbLog'[w] = cbLog[w] /\ nsteps'[w] = nsteps[w]]_vars

\* C2: a stop signal raised while a worker is alive is never lost: after it
\* is raised the worker begins no new iteration (it only completes the one
\* in flight).
C2_StopSignalNeverLost ==
    [][\A w \in stopRaised : nsteps'[w] = nsteps[w]]_vars

\* C3: a run() made while an earlier worker is still active is rejected, so
\* at no time two workers of the Cracker are alive.
C3_OneWorkerAtATime == Cardinality({w \in Workers : Alive(w)}) <= 1

\* C5: a worker that ended because step or the callback raised has
\* delivered a terminal failure through the callback channel before ending.
C5_FailureDelivered ==
    \A w \in Workers :
        pc[w] = "crashed" =>
            \E i \in 1..Len(cbLog[w]) : cbLog[w][i].what = "failure"

\* C6: a run executes at most max_iterations steps, and a worker on which
\* stop() was never called ends its loop only with best fitness equal to
\* the target length or after exactly max_iterations steps.
C6_EndsFoundOrExhausted ==
    \A w \in Workers :
        /\ nsteps[w] <= loc[w].max_iterations
        /\ (pc[w] = "done" /\ ctl.stops = 0) =>
              \/ self.best_fitness = KeystreamLength
              \/ nsteps[w] = loc[w].max_iterations

\* C7: a snapshot carrying best_fitness equal to the target length is the
\* last one delivered in its run, and the worker begins no step after it.
C7_SolutionEndsRun ==
    \A w \in Workers :
        \A i \in 1..Len(cbLog[w]) :
            cbLog[w][i].best_fitness = KeystreamLength =>
                /\ i = Len(cbLog[w])
                /\ nsteps[w] = Len(cbLog[w])
                /\ pc[w] \in {"check", "exit", "done", "crashed"}

\* C7 witness: a run that ended on a solution before its iterations ran out,
\* with no stop signal raised.
C7_Witness ==
    \E w \in Workers :
        /\ pc[w] = "done"
        /\ Len(cbLog[w]) >= 1
        /\ LastCall(w).best_fitness = KeystreamLength
        /\ nsteps[w] < loc[w].max_iterations
        /\ ctl.stops = 0

\* C9: within one run the callback is invoked exactly once after every
\* completed step, before the next step begins, and the iteration numbers
\* of successive callback snapshots increase by exactly 1.
C9_OneCallbackPerStep ==
    \A w \in Workers :
        /\ Len(cbLog[w]) =
              nsteps[w] - (IF pc[w] \in {"step", "finish", "callback"} THEN 1 ELSE 0)
        /\ \A i \in 1..(Len(cbLog[w]) - 1) :
              cbLog[w][i + 1].iteration = cbLog[w][i].iteration + 1

\* C4: the dict get_current_state returns equals, by value, the attack
\* state as the last completed step left it (as construction left it when
\* no step has completed): every field belongs to the same iteration.
C4_SnapshotNeverTorn ==
    [][GcsReturn => StateValues(lastState'[1], heap') = lastCommitted]_vars

\* C4 witness: get_current_state has returned the state of a completed
\* iteration while a worker was in the middle of its run.
C4_Witness ==
    /\ lastState # <<>>
    /\ lastState[1].iteration >= 1
    /\ \E w \in Workers : pc[w] \in {"step", "finish", "callback", "check"}

\* References held in dicts that step or get_current_state has returned.
SnapshotRefs ==
    (ConsumerRefs
     \cup UNION {StatsRefs(stats[w][1]) : w \in {v \in Workers : stats[v] # <<>>}}) \ {0}

\* The Cracker's arrays by value.
CrackerArrays == [f \in SelfArrayFields |-> heap[self[f]]]

\* The arrays of the dicts the consumers hold, by value.
HeldArrays ==
    [w \in Workers |-> IF held[w] = <<>> THEN <<>>
                       ELSE [k \in StatsArrayKeys |-> heap[held[w][1][k]]]]

StateArrays ==
    IF lastState = <<>> THEN <<>>
    ELSE [k \in StateArrayKeys |-> heap[lastState[1][k]]]

\* C10: a returned snapshot shares no array with the Cracker; a consumer
\* writing into its snapshots changes none of the Cracker's arrays, and
\* nothing but a consumer's write changes a snapshot a consumer holds.
C10_SnapshotsNotShared ==
    [][/\ SnapshotRefs' \cap SelfRefs' = {}
       /\ ConsumersWrite => CrackerArrays' = CrackerArrays
       /\ ~ConsumersWrite =>
             /\ \A w \in Workers : held'[w] = held[w] => HeldArrays'[w] = HeldArrays[w]
             /\ lastState' = lastState => StateArrays' = StateArrays]_vars

\* C10 witness: a consumer has overwritten the snapshot its callback
\* received, and the worker has completed a later step.
C10_Witness ==
    \E w \in Workers :
        /\ held[w] # <<>>
        /\ heap[held[w][1].current_candidate] = Zeroed(heap[held[w][1].current_candidate])
        /\ self.iteration > held[w][1].iteration

\* C8: under fair scheduling every worker that was started terminates.
C8_WorkersTerminate ==
    \A w \in Workers : (pc[w] = "start") ~> Terminated(w)

\* C8 witness: a worker ran its loop to the end while stop() and
\* get_current_state() were called on the Cracker.
C8_Witness ==
    \E w \in Workers :
        /\ pc[w] = "done"
        /\ nsteps[w] >= 1
        /\ ctl.stops >= 1
        /\ ctl.queries >= 1

\* ------------------------------------------------------ claims: tabu memory

\* The moves held in the tabu FIFO queue.
QueueMoves(tabu_deque) == {tabu_deque[k] : k \in 1..Len(tabu_deque)}

\* Worker w takes the part of step that selects and applies a move.
Applies(w) == pc[w] = "step" /\ pc'[w] = "finish" /\ loc'[w].best_move # NoMove

\* C12: the membership set used for the tabu test always equals the set of
\* moves held in the tabu queue.
C12_SetMatchesQueue == self.tabu_set = QueueMoves(self.tabu_deque)

\* C11: a step applies a move that is held in the tabu queue only if the
\* neighbor's fitness is strictly greater than the best-ever fitness at the
\* beginning of that step.
C11_TabuOnlyByAspiration ==
    [][\A w \in Workers :
          (Applies(w) /\ loc'[w].best_move \in QueueMoves(self.tabu_deque))
              => loc'[w].best_neighbor_fitness > self.best_fitness]_vars

\* The capacity H of Tabu Memory as the specification states it.
Capacity == ((N * (N - 1)) \div 2) \div 2

\* C13: the tabu queue and the membership set hold at most H moves each in
\* every reachable state, and no dict returned by step reports a tabu_size
\* above H.
C13_TabuWithinCapacity ==
    /\ Len(self.tabu_deque) <= Capacity
    /\ Cardinality(self.tabu_set) <= Capacity
    /\ \A w \in Workers :
          /\ stats[w] # <<>> => stats[w][1].tabu_size <= Capacity
          /\ held[w] # <<>> => held[w][1].tabu_size <= Capacity

\* C13 witness: a step has recorded a move on a queue that was already
\* full, and reports the size of the queue.
C13_Witness ==
    \E w \in Workers :
        /\ pc[w] = "callback"
        /\ stats[w][1].move_accepted # NoMove
        /\ stats[w][1].tabu_size = Capacity
        /\ held[w] # <<>>
        /\ held[w][1].tabu_size = Capacity

\* C14: when recording a move evicts the oldest move of a full queue, the
\* evicted move is not reported tabu right afterwards, unless it is the move
\* being recorded.
C14_EvictedNotTabu ==
    [][\A w \in Workers :
          (/\ Applies(w)
           /\ Len(self.tabu_deque) >= Capacity
           /\ Head(self.tabu_deque) # loc'[w].best_move)
              => ~IsTabu(self'.tabu_set, Head(self.tabu_deque))]_vars

\* C14 witness: a step that began with a full queue has recorded a move, so
\* the oldest move was evicted.
C14_Witness ==
    \E w \in Workers :
        /\ pc[w] = "finish"
        /\ loc[w].best_move # NoMove
        /\ held[w] # <<>>
        /\ held[w][1].iteration = self.iteration
        /\ held[w][1].tabu_size = Capacity
        /\ self.tabu_deque[Capacity] = loc[w].best_move
        /\ loc[w].best_move \notin {self.tabu_deque[k] : k \in 1..(Capacity - 1)}

\* An array that holds each of 0 .. N-1 exactly once.
IsPermutationOf(a, n) ==
    /\ DOMAIN a = 0..(n - 1)
    /\ {a[k] : k \in DOMAIN a} = 0..(n - 1)

\* a holds every value of 0..N-1 exactly once.
IsPermutation(a) == IsPermutationOf(a, N)

\* C15: after construction and after any sequence of steps the current
\* candidate and the best-ever candidate are permutations of [0, N-1].
C15_CandidatesArePermutations ==
    /\ IsPermutation(heap[self.current_candidate])
    /\ IsPermutation(heap[self.best_candidate])

\* C15 witness: several steps have moved the current candidate away from
\* the best-ever candidate, which is itself no longer the initial one.
C15_Witness ==
    /\ self.iteration >= 3
    /\ self.best_candidate # 4
    /\ heap[self.current_candidate] # heap[self.best_candidate]

\* -------------------------------------------------- claims: keystream engines

\* The bytes both engines have emitted so far, position by position.
Compared == 0..(Min(eng.step, Len(rc4.out)) - 1)

\* C16: at N = 256 the bytes rc4_plus_prga emits from the permutation P are
\* the bytes RC4Plus.prga_step emits when driven from S = P, i = j = 0.
C16_EngineMatchesReference ==
    (rc4.cls = "plus" /\ eng.calls = 1 /\ eng.n = 256)
        => \A k \in Compared : eng.keystream[k] = rc4.out[k + 1]

\* C17: a second call of rc4_plus_prga on an equal permutation, with the same
\* length and N, returns the bytes the first call returned.
C17_RepeatedCallSameBytes ==
    (eng.calls >= 2 /\ eng.pc = "returned") => eng.keystream = eng.first

C17_Witness ==
    /\ eng.calls = MaxCalls
    /\ eng.pc = "returned"
    /\ eng.length = MaxLength
    /\ eng.n = 256
    /\ eng.P # [k \in 0..(eng.n - 1) |-> k]

\* C18: rc4_plus_prga never changes the array its caller passed in; the
\* swaps go to the working copy.
C18_CallerArrayUnchanged == eng.pc # "idle" => eng.mem[eng.S] = eng.P

C18_Witness ==
    /\ eng.pc = "returned"
    /\ eng.length >= 2
    /\ eng.mem[eng.S_work] # eng.P

\* C19: the working S-box of rc4_plus_prga is a permutation of 0..N-1 after
\* every pass of its loop, and so is the S of RC4Classic and RC4Plus after
\* ksa and after every prga_step.
C19_SBoxStaysPermutation ==
    /\ eng.pc # "idle" => IsPermutationOf(eng.mem[eng.S_work], eng.n)
    /\ rc4.keyed => IsPermutationOf(rc4.S, rc4.N)

C19_Witness ==
    /\ eng.step >= 2
    /\ eng.mem[eng.S_work] # eng.P
    /\ Len(rc4.out) >= 2
    /\ rc4.S # [k \in 0..(rc4.N - 1) |-> k]

\* C20: at N = 64, 128 or 256, on a permutation, i, j, t, idx1, idx2, t' and
\* t'' of every pass lie in 0..N-1, every emitted byte lies in 0..255, and
\* the IndexError of lines 52-56 is never raised.
C20_IndicesInRange ==
    eng.n \in {64, 128, 256} =>
        /\ eng.pc # "raised"
        /\ eng.i \in 0..(eng.n - 1)
        /\ eng.j \in 0..(eng.n - 1)
        /\ eng.step >= 1 =>
              {eng.x.t, eng.x.idx1, eng.x.idx2, eng.y.t_prime,
               eng.y.t_double} \subseteq 0..(eng.n - 1)
        /\ \A k \in DOMAIN eng.keystream : eng.keystream[k] \in 0..255

C20_Witness ==
    /\ eng.n = 64
    /\ eng.pc = "returned"
    /\ eng.step = MaxLength
    /\ eng.P # [k \in 0..(eng.n - 1) |-> k]

\* ------------------------------------------------------- claims: fitness

\* C21: the current fitness and the best-ever fitness of a Cracker are
\* integers between 0 and the length of its target keystream.
C21_FitnessWithinLength ==
    /\ self.current_fitness \in 0..KeystreamLength
    /\ self.best_fitness \in 0..KeystreamLength

C21_Witness ==
    /\ self.iteration >= 2
    /\ self.best_fitness >= 1
    /\ self.current_fitness < self.best_fitness

\* --------------------------------------------------------- claims: setup

\* The Cracker was built on the generator's keystream and size, and its
\* shuffle gave the generator's target permutation.
OnTarget ==
    /\ setup.gen.pc = "returned"
    /\ setup.new.pc = "constructed"
    /\ setup.new.attrs.N = setup.gen.N
    /\ setup.new.attrs.target_keystream = setup.gen.target_keystream
    /\ setup.new.attrs.current_candidate = setup.gen.target_state

C23_InvalidSizeRejected ==
    /\ (setup.new.pc # "idle" /\ setup.new.N \notin {64, 128, 256}) =>
          (setup.new.pc = "raised" /\ setup.new.attrs = <<>>)
    /\ (setup.gen.pc # "idle" /\ setup.gen.N \notin {64, 128, 256}) =>
          /\ setup.gen.pc = "raised"
          /\ setup.gen.target_state = NoArray
          /\ setup.gen.target_keystream = NoArray

C23_Witness ==
    /\ setup.new.pc = "raised"
    /\ setup.new.N = 100
    /\ setup.gen.pc = "raised"
    /\ setup.gen.N = 100

\* C25: no Cracker is constructed on a target keystream of length 0.
C25_EmptyTargetRejected ==
    setup.new.pc = "constructed" => setup.new.attrs.keystream_length >= 1

\* C24: a run() with max_iterations <= 0 starts no worker thread.
C24_NoRunWithoutIterations ==
    [][\A w \in Workers :
          (pc[w] = "unborn" /\ pc'[w] # "unborn")
              => loc'[w].max_iterations >= 1]_vars

\* ------------------------------------------------ claims: the target

\* C26: the target keystream and the target permutation of a Cracker never
\* change, whatever step, run, stop and get_current_state do and whatever
\* the caller writes into the arrays it passed to the constructor.
C26_TargetNeverChanges ==
    [][/\ heap'[self'.target_keystream] = heap[self.target_keystream]
       /\ heap'[self'.target_state] = heap[self.target_state]]_vars

C26_Witness ==
    /\ \A r \in CallerRefs : heap[r] = Zeroed(heap[r])
    /\ heap[self.target_keystream] # Zeroed(heap[self.target_keystream])
    /\ heap[self.target_state] # Zeroed(heap[self.target_state])
    /\ self.iteration >= 1
    /\ ctl.stops >= 1
    /\ lastState # <<>>

\* C27: two Crackers built on the same target keystream and initial
\* candidate and given the same sampled moves in every step, but different
\* target permutations (or none), have the same candidate, fitness, best
\* candidate, best fitness and tabu memory after every step.
C27_SearchIgnoresTargetState ==
    twin # NoTwin =>
        \A f \in {"candidate", "fitness", "best_candidate", "best_fitness",
                  "tabu_deque", "tabu_set", "iteration"} :
            twin[1][f] = twin[2][f]

C27_Witness ==
    /\ twin # NoTwin
    /\ twin[2].target_state = NoArray
    /\ twin[1].iteration = SearchIterations
    /\ twin[1].best_fitness > 0
    /\ twin[1].candidate # twin[1].best_candidate
    /\ Len(twin[1].tabu_deque) = tabu_horizon

\* ---------------------------------------------------- claims: encryption

\* C28: two engines of the same kind keyed with the same key emit the same
\* keystream, and a message encrypted with the one and decrypted with the
\* other comes back unchanged when neither keystream is shorter than it.
C28_EncryptionIsSymmetric ==
    (cipher.pc # "idle" /\ rc4.keyed /\ rc4.key_bytes = cipher.key_bytes) =>
        /\ \A k \in 1..Min(Len(rc4.out), Len(cipher.keystream)) :
              rc4.out[k] = cipher.keystream[k]
        /\ (/\ cipher.pc = "decrypted"
            /\ Len(cipher.keystream) >= Len(cipher.plaintext)
            /\ Len(cipher.keystream_decrypt) >= Len(cipher.plaintext))
              => cipher.recovered = cipher.plaintext

C28_Witness ==
    /\ cipher.pc = "decrypted"
    /\ rc4.cls = "plus"
    /\ rc4.key_bytes = cipher.key_bytes
    /\ Len(cipher.plaintext) = 3
    /\ Len(cipher.keystream_decrypt) = 3
    /\ cipher.ciphertext # cipher.plaintext
    /\ cipher.recovered = cipher.plaintext

\* ------------------------------------------------------ claims: the step

\* The fitness step computes for the neighbor of `move`.
NeighborFitness(move) ==
    CalculateFitness(ApplySwap(heap[self.current_candidate], move[1], move[2]),
                     heap[self.target_keystream])

\* A step is about to choose among the moves it sampled.
Choosing == \E w \in Workers : pc[w] = "step"

\* C29: when some sampled move is not tabu or beats the best-ever fitness, the
\* step selects a move, the candidate becomes the neighbor of that move and
\* the move is recorded in the tabu queue and set, whatever the fitness of
\* the neighbor.
C29_AdmissibleMoveIsTaken ==
    /\ [](Choosing =>
            \A swaps \in RandomSwaps :
                (\E k \in 1..Len(swaps) :
                    \/ ~IsTabu(self.tabu_set, swaps[k])
                    \/ NeighborFitness(swaps[k]) > self.best_fitness)
                => SelectMove(swaps, heap[self.current_candidate],
                              heap[self.target_keystream], self.best_fitness,
                              self.tabu_set).best_move # NoMove)
    /\ [][\A w \in Workers :
            Applies(w) =>
                /\ heap'[self'.current_candidate] =
                       ApplySwap(heap[self.current_candidate],
                                 loc'[w].best_move[1], loc'[w].best_move[2])
                /\ self'.current_fitness = NeighborFitness(loc'[w].best_move)
                /\ self'.tabu_deque[Len(self'.tabu_deque)] = loc'[w].best_move
                /\ IsTabu(self'.tabu_set, loc'[w].best_move)]_vars

C29_Witness ==
    \E w \in Workers :
        /\ pc[w] = "finish"
        /\ loc[w].best_move # NoMove
        /\ self.current_fitness <
              CalculateFitness(heap[loc[w].previous_candidate],
                               heap[self.target_keystream])
        /\ self.tabu_deque[Len(self.tabu_deque)] = loc[w].best_move

\* C30: when every sampled move is tabu and none beats the best-ever
\* fitness, the step selects nothing, leaves candidate, fitness, predicted
\* keystream, best candidate, best fitness and tabu memory as they were, and
\* returns its dict; the iteration counter goes up by exactly 1, as in every
\* step.
C30_NoAdmissibleMoveNoChange ==
    /\ [](Choosing =>
            \A swaps \in RandomSwaps :
                (\A k \in 1..Len(swaps) :
                    /\ IsTabu(self.tabu_set, swaps[k])
                    /\ ~(NeighborFitness(swaps[k]) > self.best_fitness))
                => SelectMove(swaps, heap[self.current_candidate],
                              heap[self.target_keystream], self.best_fitness,
                              self.tabu_set).best_move = NoMove)
    /\ [][\A w \in Workers :
            (pc[w] = "step" /\ pc'[w] # "step" /\ loc'[w].best_move = NoMove) =>
                /\ pc'[w] = "finish"
                /\ AttackState(self', heap') = AttackState(self, heap)
                /\ heap'[self'.best_predicted_keystream] =
                       heap[self.best_predicted_keystream]
                /\ self'.tabu_deque = self.tabu_deque
                /\ self'.tabu_set = self.tabu_set]_vars
    /\ [][\A w \in Workers :
            (pc[w] = "finish" /\ pc'[w] # "finish") =>
                /\ pc'[w] = "callback"
                /\ stats'[w] # <<>>
                /\ self'.iteration = self.iteration + 1
                /\ AttackState(self', heap') =
                       [AttackState(self, heap) EXCEPT !.iteration = @ + 1]
                /\ self'.tabu_deque = self.tabu_deque
                /\ self'.tabu_set = self.tabu_set]_vars

C30_Witness ==
    \E w \in Workers :
        /\ pc[w] = "callback"
        /\ stats[w][1].move_accepted = NoMove
        /\ stats[w][1].iteration = self.iteration
        /\ self.tabu_set # {}

\* -------------------------------------------- claims: the returned dict

\* C31: in the dict a step returns, move_accepted and current_swap both name
\* the move applied in that iteration, and both are None when the iteration
\* applied no move.
C31_AppliedMoveReported ==
    [][\A w \in Workers :
          (pc[w] = "finish" /\ pc'[w] = "callback") =>
              /\ stats'[w][1].move_accepted = loc[w].best_move
              /\ stats'[w][1].current_swap = loc[w].best_move]_vars

\* C32: the move a step selects has a neighbor fitness at least that of
\* every sampled move that passes the admission test of step (not tabu, or
\* above the best-ever fitness), and no admissible move sampled before it
\* reaches that fitness.
C32_SelectsFirstBest ==
    /\ [](Choosing =>
            \A swaps \in RandomSwaps :
                LET sel == SelectMove(swaps, heap[self.current_candidate],
                                      heap[self.target_keystream],
                                      self.best_fitness, self.tabu_set)
                IN  \A k \in 1..Len(swaps) :
                        (\/ ~IsTabu(self.tabu_set, swaps[k])
                         \/ NeighborFitness(swaps[k]) > self.best_fitness)
                        => /\ sel.best_move # NoMove
                           /\ sel.best_neighbor_fitness =
                                  NeighborFitness(sel.best_move)
                           /\ NeighborFitness(swaps[k]) <=
                                  sel.best_neighbor_fitness
                           /\ \E first \in 1..Len(swaps) :
                                  /\ swaps[first] = sel.best_move
                                  /\ (NeighborFitness(swaps[k]) =
                                         sel.best_neighbor_fitness) => first <= k)
    /\ [][\A w \in Workers :
            Applies(w) =>
                \E swaps \in RandomSwaps :
                    loc'[w].best_move =
                        SelectMove(swaps, heap[self.current_candidate],
                                   heap[self.target_keystream],
                                   self.best_fitness, self.tabu_set).best_move]_vars

C32_Witness ==
    \E w \in Workers :
        /\ pc[w] = "finish"
        /\ self.tabu_deque = <<loc[w].best_move>>
        /\ \E move \in all_swaps \ {loc[w].best_move} :
              CalculateFitness(ApplySwap(heap[loc[w].previous_candidate],
                                         move[1], move[2]),
                               heap[self.target_keystream])
                  = loc[w].best_neighbor_fitness

\* C33: in the dict a step returns, current_candidate is display_candidate
\* (the candidate before the iteration) with the two positions of the
\* applied move exchanged and every other position alike, and it equals
\* display_candidate when no move was applied.
C33_CandidateIsOneSwapAway ==
    \A w \in Workers :
        stats[w] # <<>> =>
            LET d == stats[w][1]
                new == heap[d.current_candidate]
                old == heap[d.display_candidate]
            IN  IF d.move_accepted = NoMove THEN new = old
                ELSE /\ DOMAIN new = DOMAIN old
                     /\ new[d.move_accepted[1]] = old[d.move_accepted[2]]
                     /\ new[d.move_accepted[2]] = old[d.move_accepted[1]]
                     /\ new[d.move_accepted[1]] # old[d.move_accepted[1]]
                     /\ \A k \in DOMAIN old :
                           (k # d.move_accepted[1] /\ k # d.move_accepted[2])
                               => new[k] = old[k]

C33_Witness ==
    \E w \in Workers :
        /\ stats[w] # <<>>
        /\ stats[w][1].iteration >= 2
        /\ stats[w][1].move_accepted # NoMove
        /\ heap[stats[w][1].display_candidate] # heap[stats[w][1].best_candidate]

\* ------------------------------------------------- claims: the best-ever

\* C34: the best-ever fitness starts as the fitness of the initial
\* candidate, never decreases, and after every step is the larger of its
\* old value and the fitness of the candidate the search is on; the
\* best-ever candidate changes only to a candidate of strictly higher
\* fitness than the old best.
C34_BestIsRunningMaximum ==
    /\ self.best_fitness =
           CalculateFitness(heap[self.current_candidate],
                            heap[self.target_keystream])
    /\ [][/\ self'.best_fitness >= self.best_fitness
          /\ self'.best_fitness =
                 Max(self.best_fitness,
                     CalculateFitness(heap'[self'.current_candidate],
                                      heap'[self'.target_keystream]))
          /\ heap'[self'.best_candidate] # heap[self.best_candidate] =>
                 /\ CalculateFitness(heap'[self'.best_candidate],
                                     heap'[self'.target_keystream])
                        > self.best_fitness
                 /\ heap'[self'.best_candidate] =
                        heap'[self'.current_candidate]]_vars

C34_Witness ==
    /\ self.iteration >= 3
    /\ self.current_fitness < self.best_fitness
    /\ heap[self.best_candidate] # heap[self.current_candidate]
    /\ \E w \in Workers :
          /\ Len(cbLog[w]) >= 2
          /\ cbLog[w][1].best_fitness < self.best_fitness

\* ---------------------------------------------- claims: keystream bytes

\* C35: the bytes a call of rc4_plus_prga has written after k passes of its
\* loop are the bytes a call of length k on the same permutation returns,
\* for every k up to the length of the call.
C35_PrefixOfLongerCall ==
    eng.pc \in {"loop", "returned"} =>
        \A k \in 0..eng.step :
            [step \in 0..(k - 1) |-> eng.keystream[step]]
                = rc4_plus_prga(eng.P, k, eng.n)

C35_Witness ==
    /\ eng.pc = "returned"
    /\ eng.calls = 1
    /\ eng.n = 64
    /\ eng.step = MaxLength
    /\ eng.keystream[1] # eng.keystream[0]
    /\ eng.keystream[2] # eng.keystream[1]
    /\ eng.P # [k \in 0..(eng.n - 1) |-> k]

\* ------------------------------------------------ claims: cached values

C37_CurrentAtMostBest ==
    /\ self.current_fitness = self.best_fitness
    /\ [](self.current_fitness <= self.best_fitness)

C37_Witness ==
    \E w \in Workers :
        /\ pc[w] = "finish"
        /\ loc[w].best_move # NoMove
        /\ self.iteration >= 1
        /\ self.current_fitness < self.best_fitness
        /\ CalculateFitness(heap[loc[w].previous_candidate],
                            heap[self.target_keystream]) = self.best_fitness

\* ------------------------------------------- claims: the solved Cracker

\* C38: run() with max_iterations >= 1 on a Cracker whose best fitness is
\* the target length at construction, with no stop raised, executes exactly
\* one step and calls the callback exactly once, and then its thread ends.
C38_OneStepOnSolvedCracker ==
    /\ [](\A w \in Workers :
            /\ nsteps[w] <= 1
            /\ Len(cbLog[w]) <= 1
            /\ Terminated(w) => (nsteps[w] = 1 /\ Len(cbLog[w]) = 1))
    /\ \A w \in Workers : (pc[w] # "unborn") ~> Terminated(w)

C38_Witness ==
    \E w \in Workers :
        /\ pc[w] = "done"
        /\ loc[w].max_iterations >= 2
        /\ nsteps[w] = 1
        /\ Len(cbLog[w]) = 1
        /\ cbLog[w][1].iteration = 1
        /\ cbLog[w][1].best_fitness = KeystreamLength
        /\ ctl.stops = 0

\* C39: for N < 256 every byte rc4_plus_prga emits is a multiple of 256 / N
\* (4 at N = 64, 2 at N = 128), hence one of N values.
C39_BytesAreMultiples ==
    (eng.pc # "idle" /\ eng.n < 256) =>
        \A k \in 0..(eng.step - 1) :
            /\ eng.keystream[k] % (256 \div eng.n) = 0
            /\ eng.keystream[k] \in
                   {v * (256 \div eng.n) : v \in 0..(eng.n - 1)}

C39_Witness ==
    /\ eng.pc = "returned"
    /\ eng.n = 64
    /\ eng.step = MaxLength
    /\ \E k \in 0..(eng.step - 1) : eng.keystream[k] % 8 = 4
    /\ \E k \in 0..(eng.step - 1) : eng.keystream[k] >= 128


====
